---- MODULE Spec2Model ----
(***************************************************************************)
(* Model of the playlist generator: cli.main, generator.create_playlist    *)
(* and the stages it calls (_filter_music_rows, _apply_artist_patterns,    *)
(* _aggregate_and_order, _write_csv, _create_playlist_and_add).            *)
(*                                                                         *)
(* Data representation.  A Python str is a sequence of one-character       *)
(* strings (<<"A","b">>); Ord gives the code point that str comparison     *)
(* uses.  A nullable cell (None / NaN) is an optional value: None == <<>>  *)
(* and Some(x) == <<x>>.  A DataFrame is a sequence of row records in row  *)
(* order.                                                                  *)
(***************************************************************************)
EXTENDS Integers, Sequences, FiniteSets, TLC

VARIABLES pc, entry, args, patterns, df_raw, df_music, df,
          artist_totals, artist_top, ordered, uris, csv, playlist, exc

vars == <<pc, entry, args, patterns, df_raw, df_music, df,
          artist_totals, artist_top, ordered, uris, csv, playlist, exc>>

\* ------------------------------------------------------------------ bounds
MaxEvents == 4
MaxDedupEvents == 3
MaxRows == 2
MaxPatterns == 2
MaxRaw == 1

\* ------------------------------------------------------------ basic values
None == <<>>
Some(x) == <<x>>
isna(o) == o = None
notna(o) == o # None
val(o) == o[1]

Ord == ("." :> 46) @@ ("1" :> 49) @@ ("2" :> 50) @@ ("A" :> 65) @@ ("B" :> 66)
       @@ ("T" :> 84) @@ ("\\" :> 92) @@ ("a" :> 97) @@ ("b" :> 98)
       @@ ("u" :> 117) @@ ("|" :> 124)

\* Python's str "<": lexicographic on code points, a proper prefix is smaller.
StrLess(s, t) ==
    \E k \in 1..Len(t) :
        /\ k - 1 <= Len(s)
        /\ \A j \in 1..(k - 1) : s[j] = t[j]
        /\ \/ k = Len(s) + 1
           \/ Ord[s[k]] < Ord[t[k]]

\* Order of one group key column: strings ascending, NaN after every string.
KeyLess(x, y) ==
    IF isna(x) THEN FALSE
    ELSE IF isna(y) THEN TRUE
    ELSE StrLess(val(x), val(y))

\* Order of the (artist, track, uri) group keys: lexicographic by column.
TrackKeyLess(r, s) ==
    \/ KeyLess(r.artist, s.artist)
    \/ r.artist = s.artist /\ KeyLess(r.track, s.track)
    \/ r.artist = s.artist /\ r.track = s.track /\ KeyLess(r.uri, s.uri)

Range(s) == {s[i] : i \in DOMAIN s}

\* A stable sort of the rows of s: before is the strict order of the sort key
\* (the set of pairs <<r, t>> with r's key before t's), rows whose keys compare
\* equal keep their relative order.
StableSort(s, before) ==
    LET n == Len(s)
        pos(i) == 1 + Cardinality({j \in 1..n :
                        \/ <<s[j], s[i]>> \in before
                        \/ <<s[i], s[j]>> \notin before /\ j < i})
    IN [k \in 1..n |-> s[CHOOSE i \in 1..n : pos(i) = k]]

\* The elements of a finite set as a sequence ascending in the strict total
\* order less (a set of pairs).
SortedSeq(S, less) ==
    [k \in 1..Cardinality(S) |->
        CHOOSE x \in S : Cardinality({y \in S : <<y, x>> \in less}) = k - 1]

\* Series.sum() of the ms column: NaN cells are skipped.
RECURSIVE SumMs(_)
SumMs(rows) ==
    IF rows = <<>> THEN 0
    ELSE (IF isna(Head(rows).ms) THEN 0 ELSE val(Head(rows).ms)) + SumMs(Tail(rows))

head(s, n) == SubSeq(s, 1, IF n < Len(s) THEN n ELSE Len(s))

\* ------------------------------------------------- _aggregate_and_order
\* df.groupby("artist", dropna=False)["ms"].sum(): one row per artist, in
\* ascending key order (groupby sorts its keys).
groupby_artist_sum(d) ==
    LET S == {d[i].artist : i \in DOMAIN d}
        keys == SortedSeq(S, {xy \in S \X S : KeyLess(xy[1], xy[2])})
    IN [k \in 1..Len(keys) |->
          [artist |-> keys[k],
           artist_ms |-> SumMs(SelectSeq(d, LAMBDA e : e.artist = keys[k]))]]

\* Mutant: ascending order.
sort_values_asc(s) ==
    {p \in {[k \in 1..Len(s) |-> s[f[k]]] : f \in Permutations(1..Len(s))} :
        \A i \in 1..Len(p) : \A j \in 1..Len(p) :
            i < j => p[i].artist_ms <= p[j].artist_ms}

\* .sort_values(ascending=False) with the default kind (quicksort, not
\* stable): every descending arrangement of the rows is a possible outcome.
sort_values_desc(s) ==
    {p \in {[k \in 1..Len(s) |-> s[f[k]]] : f \in Permutations(1..Len(s))} :
        \A i \in 1..Len(p) : \A j \in 1..Len(p) :
            i < j => p[i].artist_ms >= p[j].artist_ms}

\* df.groupby(["artist","track","uri"], dropna=False)["ms"].sum().reset_index()
groupby_track_sum(d) ==
    LET S == {[artist |-> d[i].artist, track |-> d[i].track, uri |-> d[i].uri] :
                 i \in DOMAIN d}
        keys == SortedSeq(S, {xy \in S \X S : TrackKeyLess(xy[1], xy[2])})
    IN [k \in 1..Len(keys) |->
          [artist |-> keys[k].artist, track |-> keys[k].track, uri |-> keys[k].uri,
           track_ms |-> SumMs(SelectSeq(d, LAMBDA e :
                          /\ e.artist = keys[k].artist
                          /\ e.track = keys[k].track
                          /\ e.uri = keys[k].uri))]]

\* Mutant: the floor keeps totals equal to it.
track_floor_ge(tt, min_track_total_ms) ==
    IF notna(min_track_total_ms)
    THEN SelectSeq(tt, LAMBDA r : r.track_ms >= val(min_track_total_ms))
    ELSE tt

\* track_totals[track_totals["track_ms"] > int(min_track_total_ms)]
track_floor(tt, min_track_total_ms) ==
    IF notna(min_track_total_ms)
    THEN SelectSeq(tt, LAMBDA r : r.track_ms > val(min_track_total_ms))
    ELSE tt

\* track_totals.merge(artist_top[["artist","artist_ms"]], on="artist",
\* how="inner"): the left rows whose artist is selected, in left order, each
\* with its artist's total.
merge_artist_top(tt, top) ==
    LET kept == SelectSeq(tt, LAMBDA r :
                    \E k \in DOMAIN top : top[k].artist = r.artist)
    IN [i \in 1..Len(kept) |->
          [artist |-> kept[i].artist, track |-> kept[i].track, uri |-> kept[i].uri,
           track_ms |-> kept[i].track_ms,
           artist_ms |-> (CHOOSE a \in {top[k] : k \in DOMAIN top} :
                             a.artist = kept[i].artist).artist_ms]]

\* sort_values(by=["artist_ms","track_ms"], ascending=[False, False]): stable.
sort_artist_track(tt) ==
    StableSort(tt, {rt \in Range(tt) \X Range(tt) :
        \/ rt[1].artist_ms > rt[2].artist_ms
        \/ rt[1].artist_ms = rt[2].artist_ms /\ rt[1].track_ms > rt[2].track_ms})

\* Mutant: ranks ascending in track_ms.
rank_in_artist_asc(tt) ==
    [i \in 1..Len(tt) |->
        [artist |-> tt[i].artist, track |-> tt[i].track, uri |-> tt[i].uri,
         track_ms |-> tt[i].track_ms, artist_ms |-> tt[i].artist_ms,
         rank_in_artist |-> 1 + Cardinality({j \in 1..Len(tt) :
                /\ tt[j].artist = tt[i].artist
                /\ \/ tt[j].track_ms < tt[i].track_ms
                   \/ tt[j].track_ms = tt[i].track_ms /\ j < i})]]

\* groupby("artist")["track_ms"].rank(method="first", ascending=False):
\* 1-based rank inside the artist, larger track_ms first, equal values in the
\* order the rows have in the frame (the artist is never null here:
\* _filter_music_rows drops such rows).
rank_in_artist(tt) ==
    [i \in 1..Len(tt) |->
        [artist |-> tt[i].artist, track |-> tt[i].track, uri |-> tt[i].uri,
         track_ms |-> tt[i].track_ms, artist_ms |-> tt[i].artist_ms,
         rank_in_artist |-> 1 + Cardinality({j \in 1..Len(tt) :
                /\ tt[j].artist = tt[i].artist
                /\ \/ tt[j].track_ms > tt[i].track_ms
                   \/ tt[j].track_ms = tt[i].track_ms /\ j < i})]]

\* Mutant: only the rank equal to tracks_per_artist is kept.
rank_filter_eq(tt, tracks_per_artist) ==
    SelectSeq(tt, LAMBDA r : r.rank_in_artist = tracks_per_artist)

\* track_totals[track_totals["rank_in_artist"] <= int(tracks_per_artist)]
rank_filter(tt, tracks_per_artist) ==
    SelectSeq(tt, LAMBDA r : r.rank_in_artist <= tracks_per_artist)

\* sort_values(by=["artist_ms","rank_in_artist"], ascending=[False, True],
\* kind="mergesort"): stable.
sort_artist_rank(tt) ==
    StableSort(tt, {rt \in Range(tt) \X Range(tt) :
        \/ rt[1].artist_ms > rt[2].artist_ms
        \/ rt[1].artist_ms = rt[2].artist_ms
              /\ rt[1].rank_in_artist < rt[2].rank_in_artist})

\* The final table, from the selected artists top (lines 193-227).
ordered_table(d, top, tracks_per_artist, min_track_total_ms) ==
    sort_artist_rank(
        rank_filter(
            rank_in_artist(
                sort_artist_track(
                    merge_artist_top(
                        track_floor(groupby_track_sum(d), min_track_total_ms),
                        top))),
            tracks_per_artist))

\* Mutant: no test against seen.
RECURSIVE dedup_loop_unseen(_, _, _)
dedup_loop_unseen(rows, seen, out) ==
    IF rows = <<>> THEN out
    ELSE LET u == Head(rows).uri
         IN IF isna(u) THEN dedup_loop_unseen(Tail(rows), seen, out)
            ELSE dedup_loop_unseen(Tail(rows), seen \cup {u}, Append(out, u))

\* The loop over ordered["uri"]: skip NaN, append what is not in seen.
RECURSIVE dedup_loop(_, _, _)
dedup_loop(rows, seen, out) ==
    IF rows = <<>> THEN out
    ELSE LET u == Head(rows).uri
         IN IF isna(u) THEN dedup_loop(Tail(rows), seen, out)
            ELSE IF u \notin seen
                 THEN dedup_loop(Tail(rows), seen \cup {u}, Append(out, u))
                 ELSE dedup_loop(Tail(rows), seen, out)

dedup_uris(tbl) == dedup_loop(tbl, {}, <<>>)

\* ------------------------------------------------- _load_artist_patterns
Whitespace == {" ", "\n"}

RECURSIVE lstrip(_)
lstrip(s) == IF s # <<>> /\ Head(s) \in Whitespace THEN lstrip(Tail(s)) ELSE s

RECURSIVE rstrip(_)
rstrip(s) ==
    IF s # <<>> /\ s[Len(s)] \in Whitespace THEN rstrip(SubSeq(s, 1, Len(s) - 1)) ELSE s

strip(s) == rstrip(lstrip(s))

\* The lines of the file, stripped, without blank lines and "#" lines.
RECURSIVE load_artist_patterns(_)
load_artist_patterns(lines) ==
    IF lines = <<>> THEN <<>>
    ELSE LET t == strip(Head(lines))
         IN IF t = <<>> \/ Head(t) = "#"
            THEN load_artist_patterns(Tail(lines))
            ELSE <<t>> \o load_artist_patterns(Tail(lines))

\* ------------------------------------------------- _apply_artist_patterns
\* re.escape: a backslash before every character special to re.
ReSpecial == {".", "|", "\\", "#", " ", "\n"}

\* Mutant: the patterns are not escaped.
re_escape_none(p) == p

RECURSIVE re_escape(_)
re_escape(p) ==
    IF p = <<>> THEN <<>>
    ELSE (IF Head(p) \in ReSpecial THEN <<"\\", Head(p)>> ELSE <<Head(p)>>)
         \o re_escape(Tail(p))

\* "|".join(parts)
RECURSIVE join_bar(_)
join_bar(parts) ==
    IF parts = <<>> THEN <<>>
    ELSE IF Len(parts) = 1 THEN parts[1]
    ELSE parts[1] \o <<"|">> \o join_bar(Tail(parts))

\* regex = "|".join([re.escape(p) for p in patterns])
build_regex(pats) == join_bar([k \in 1..Len(pats) |-> re_escape(pats[k])])

\* The alternatives of a compiled expression, each a sequence of atoms: an
\* escaped character and an ordinary character are literals, "." is any
\* character but a newline, an unescaped "|" separates alternatives.
RECURSIVE re_compile(_, _, _)
re_compile(rx, cur, alts) ==
    IF rx = <<>> THEN Append(alts, cur)
    ELSE IF Head(rx) = "\\" /\ Len(rx) >= 2
         THEN re_compile(SubSeq(rx, 3, Len(rx)),
                         Append(cur, [kind |-> "lit", ch |-> rx[2]]), alts)
    ELSE IF Head(rx) = "|" THEN re_compile(Tail(rx), <<>>, Append(alts, cur))
    ELSE IF Head(rx) = "." THEN re_compile(Tail(rx), Append(cur, [kind |-> "any", ch |-> "."]), alts)
    ELSE re_compile(Tail(rx), Append(cur, [kind |-> "lit", ch |-> Head(rx)]), alts)

\* Case folding of re.IGNORECASE on the letters of the model.
ToLower == ("A" :> "a") @@ ("B" :> "b")
lower(c) == IF c \in DOMAIN ToLower THEN ToLower[c] ELSE c

atom_matches(atom, c) ==
    IF atom.kind = "any" THEN c # "\n" ELSE lower(atom.ch) = lower(c)

\* re.search(regex, text, re.IGNORECASE) is not None
re_search(rx, text) ==
    LET alts == re_compile(rx, <<>>, <<>>)
    IN \E a \in DOMAIN alts : \E start \in 0..(Len(text) - Len(alts[a])) :
          \A k \in 1..Len(alts[a]) : atom_matches(alts[a][k], text[start + k])

\* Series.astype(str) of one cell.
astype_str(cell) == IF isna(cell) THEN <<"n", "a", "n">> ELSE val(cell)

\* df["artist"].astype(str).str.contains(regex, case=False, na=False), per row
str_contains(d, rx) == [i \in 1..Len(d) |-> re_search(rx, astype_str(d[i].artist))]

ErrBadMode == "ValueError: artists_filter_mode must be 'exclude' or 'include'."

\* The returned frame, or the exception raised.
apply_artist_patterns(d, pats, mode) ==
    IF pats = <<>> THEN [raised |-> "", df |-> d]
    ELSE LET matched == str_contains(d, build_regex(pats))
             idx(keep) == SortedSeq({i \in 1..Len(d) : matched[i] = keep},
                                    {xy \in (1..Len(d)) \X (1..Len(d)) : xy[1] < xy[2]})
             loc(keep) == [k \in 1..Len(idx(keep)) |-> d[idx(keep)[k]]]
         IN IF mode = "include" THEN [raised |-> "", df |-> loc(TRUE)]
            ELSE IF mode = "exclude" THEN [raised |-> "", df |-> loc(FALSE)]
            ELSE [raised |-> ErrBadMode, df |-> <<>>]

\* ----------------------------------------------------- _filter_music_rows
\* Python truthiness of an Optional[int] argument.
truthy(o) == notna(o) /\ val(o) # 0

filter_music_rows(raw, min_play_ms, year_start, year_end) ==
    LET music == SelectSeq(raw, LAMBDA r : isna(r.episode_name) /\ isna(r.audiobook_title))
        meta == SelectSeq(music, LAMBDA r :
                    /\ notna(r.master_metadata_track_name)
                    /\ notna(r.master_metadata_album_artist_name))
        played == SelectSeq(meta, LAMBDA r :
                    (IF isna(r.ms_played) THEN 0 ELSE val(r.ms_played)) >= min_play_ms)
        dated == SelectSeq(played, LAMBDA r : notna(r.ts))
        from == IF truthy(year_start)
                THEN SelectSeq(dated, LAMBDA r : val(r.ts) >= val(year_start))
                ELSE dated
        upto == IF truthy(year_end)
                THEN SelectSeq(from, LAMBDA r : val(r.ts) <= val(year_end))
                ELSE from
        rows == IF truthy(year_start) \/ truthy(year_end) THEN upto ELSE played
    IN [i \in 1..Len(rows) |->
          [ts |-> rows[i].ts, ms |-> rows[i].ms_played,
           artist |-> rows[i].master_metadata_album_artist_name,
           track |-> rows[i].master_metadata_track_name,
           uri |-> rows[i].spotify_track_uri]]

\* ------------------------------------------------------------- _write_csv
write_csv(tbl) ==
    [i \in 1..Len(tbl) |->
        [artist |-> tbl[i].artist, track |-> tbl[i].track, uri |-> tbl[i].uri,
         track_ms |-> tbl[i].track_ms, artist_ms |-> tbl[i].artist_ms]]

\* ------------------------------------------------------------- exceptions
ErrChoice == "SystemExit: argument --artists_filter_mode: invalid choice"
ErrYears == "ValueError: Invalid year range"
ErrNegative == "ValueError: must be >= 0"
ErrFilterFile == "FileNotFoundError: Artists filter file not found"
ErrSource == "FileNotFoundError: Source directory not found"
ErrNoRows == "RuntimeError: No valid music rows after filtering."
ErrNoUris == "RuntimeError: No valid Spotify track URIs to add."
ErrAuth == "SpotifyOauthError"
ErrCreate == "SpotifyException: user_playlist_create"
ErrAdd == "SpotifyException: playlist_add_items"

raise(e) == pc' = "error" /\ exc' = e
goto(l) == pc' = l /\ exc' = exc

\* ------------------------------------------------------------------ inputs
Str(S) == {<<c>> : c \in S}
SeqsUpTo(S, n) == UNION {[1..k -> S] : k \in 0..n}

\* Rows of the streaming history files, as _load_history returns them; ts is
\* the year of the timestamp.
RawRows ==
    {[ts |-> t, ms_played |-> Some(1), master_metadata_track_name |-> Some(<<"T", "1">>),
      master_metadata_album_artist_name |-> a, spotify_track_uri |-> u,
      episode_name |-> e, audiobook_title |-> None] :
        t \in {None, Some(2024)}, a \in {None, Some(<<"A">>)},
        u \in {None, Some(<<"u", "1">>)}, e \in {None, Some(<<"a">>)}}

RawInputs == SeqsUpTo(RawRows, MaxRaw)

\* ------------------------------------------------------------ cli.main
validate_years(start, end) ==
    IF notna(start) /\ notna(end) /\ val(start) > val(end) THEN ErrYears ELSE ""

validate_non_negative(value) ==
    IF notna(value) /\ val(value) < 0 THEN ErrNegative ELSE ""

\* parse_args and the validations of main, up to the call of create_playlist.
Main ==
    /\ pc = "main"
    /\ IF args.artists_filter_mode \notin {"exclude", "include"} THEN raise(ErrChoice)
       ELSE IF validate_years(args.year_start, args.year_end) # "" THEN raise(ErrYears)
       ELSE IF validate_non_negative(Some(args.min_play_ms)) # "" THEN raise(ErrNegative)
       ELSE IF validate_non_negative(args.min_track_total_ms) # "" THEN raise(ErrNegative)
       ELSE goto("step0")
    /\ UNCHANGED <<entry, args, patterns, df_raw, df_music, df, artist_totals,
                   artist_top, ordered, uris, csv, playlist>>

\* ------------------------------------------------------- create_playlist
\* 0) patterns = _load_artist_patterns(artists_filter_file)
Step0 ==
    /\ pc = "step0"
    /\ IF isna(args.artists_filter_file)
       THEN patterns' = <<>> /\ goto("step1")
       ELSE IF ~val(args.artists_filter_file).isfile
       THEN patterns' = patterns /\ raise(ErrFilterFile)
       ELSE /\ patterns' = load_artist_patterns(val(args.artists_filter_file).lines)
            /\ goto("step1")
    /\ UNCHANGED <<entry, args, df_raw, df_music, df, artist_totals, artist_top,
                   ordered, uris, csv, playlist>>

\* 1) df_raw = _load_history(source_dir): the rows of the JSON files (a
\* missing column is None, ts becomes the timestamp or NaT), or the error of
\* a missing directory / no readable file.
Step1 ==
    /\ pc = "step1"
    /\ \/ /\ \E raw \in RawInputs : df_raw' = raw
          /\ goto("step2")
       \/ /\ df_raw' = df_raw
          /\ raise(ErrSource)
    /\ UNCHANGED <<entry, args, patterns, df_music, df, artist_totals, artist_top,
                   ordered, uris, csv, playlist>>

\* 2) df = _filter_music_rows(...); raise if df.empty
Step2 ==
    /\ pc = "step2"
    /\ LET d == filter_music_rows(df_raw, args.min_play_ms, args.year_start, args.year_end)
       IN /\ df_music' = d
          /\ df' = d
          /\ IF d = <<>> THEN raise(ErrNoRows) ELSE goto("step2_5")
    /\ UNCHANGED <<entry, args, patterns, df_raw, artist_totals, artist_top,
                   ordered, uris, csv, playlist>>

\* 2.5) if patterns: df = _apply_artist_patterns(df, patterns, mode)
Step2_5 ==
    /\ pc = "step2_5"
    /\ IF patterns # <<>>
       THEN LET r == apply_artist_patterns(df_music, patterns, args.artists_filter_mode)
            IN IF r.raised # "" THEN df' = df /\ raise(r.raised)
               ELSE df' = r.df /\ goto("step3")
       ELSE df' = df_music /\ goto("step3")
    /\ UNCHANGED <<entry, args, patterns, df_raw, df_music, artist_totals,
                   artist_top, ordered, uris, csv, playlist>>

\* Mutant: no test of the identifier sequence.
Step3_no_raise ==
    /\ pc = "step3"
    /\ \E st \in sort_values_desc(groupby_artist_sum(df)) :
        LET top == head(st, args.top_artists)
            tbl == ordered_table(df, top, args.tracks_per_artist,
                                 args.min_track_total_ms)
        IN /\ artist_totals' = st
           /\ artist_top' = top
           /\ ordered' = tbl
           /\ uris' = dedup_uris(tbl)
           /\ goto("step4")
    /\ UNCHANGED <<entry, args, patterns, df_raw, df_music, df, csv, playlist>>

\* 3) ordered_df, uris = _aggregate_and_order(...); raise if not uris
Step3 ==
    /\ pc = "step3"
    /\ \E st \in sort_values_desc(groupby_artist_sum(df)) :
        LET top == head(st, args.top_artists)
            tbl == ordered_table(df, top, args.tracks_per_artist,
                                 args.min_track_total_ms)
            us == dedup_uris(tbl)
        IN /\ artist_totals' = st
           /\ artist_top' = top
           /\ ordered' = tbl
           /\ uris' = us
           /\ IF us = <<>>
              THEN raise(ErrNoUris) ELSE goto("step4")
    /\ UNCHANGED <<entry, args, patterns, df_raw, df_music, df, csv, playlist>>

\* 4) csv_path = _write_csv(ordered_df, playlist_name)
Step4 ==
    /\ pc = "step4"
    /\ csv' = Some(write_csv(ordered))
    /\ goto("step5")
    /\ UNCHANGED <<entry, args, patterns, df_raw, df_music, df, artist_totals,
                   artist_top, ordered, uris, playlist>>

\* 5) sp = Spotify(auth_manager=...); me = sp.current_user()
Step5 ==
    /\ pc = "step5"
    /\ goto("step6") \/ raise(ErrAuth)
    /\ UNCHANGED <<entry, args, patterns, df_raw, df_music, df, artist_totals,
                   artist_top, ordered, uris, csv, playlist>>

\* 6) _create_playlist_and_add: sp.user_playlist_create(...)
Step6 ==
    /\ pc = "step6"
    /\ \/ playlist' = Some(<<>>) /\ goto("adding")
       \/ playlist' = playlist /\ raise(ErrCreate)
    /\ UNCHANGED <<entry, args, patterns, df_raw, df_music, df, artist_totals,
                   artist_top, ordered, uris, csv>>

ChunkSize == 100

\* One pass of the loop "for i in range(0, total, 100)":
\* sp.playlist_add_items(playlist_id, uris[i: i + 100])
AddItems ==
    /\ pc = "adding"
    /\ Len(val(playlist)) < Len(uris)
    /\ LET i == Len(val(playlist))
           chunk == SubSeq(uris, i + 1, IF i + ChunkSize < Len(uris)
                                        THEN i + ChunkSize ELSE Len(uris))
       IN \/ playlist' = Some(val(playlist) \o chunk) /\ goto("adding")
          \/ playlist' = playlist /\ raise(ErrAdd)
    /\ UNCHANGED <<entry, args, patterns, df_raw, df_music, df, artist_totals,
                   artist_top, ordered, uris, csv>>

\* The loop is over: create_playlist returns.
Return ==
    /\ pc = "adding"
    /\ Len(val(playlist)) >= Len(uris)
    /\ goto("done")
    /\ UNCHANGED <<entry, args, patterns, df_raw, df_music, df, artist_totals,
                   artist_top, ordered, uris, csv, playlist>>

\* ---------------------------------------------- inputs of the aggregation
AggArtists == {<<"A">>, <<"B">>}
AggTracks == {<<"T", "1">>, <<"T", "2">>}
AggUris == {Some(<<"u", "1">>)}
\* One play of T1 is listened to for 1 ms, one play of T2 for 2 ms.
AggPlayMs == (<<"T", "1">> :> 1) @@ (<<"T", "2">> :> 2)
AggEvents ==
    {[ts |-> Some(2024), ms |-> Some(AggPlayMs[t]), artist |-> Some(a),
      track |-> Some(t), uri |-> u] :
        a \in AggArtists, t \in AggTracks, u \in AggUris}

AggArgs ==
    {[year_start |-> None, year_end |-> None, top_artists |-> n,
      tracks_per_artist |-> m, min_play_ms |-> 0, min_track_total_ms |-> f,
      artists_filter_file |-> None, artists_filter_mode |-> "exclude"] :
        n \in 0..2, m \in 0..2, f \in {None, Some(0), Some(1), Some(2)}}

InitAgg ==
    /\ pc = "step3"
    /\ entry = "create_playlist"
    /\ args \in AggArgs
    /\ patterns = <<>>
    /\ df_raw = <<>>
    /\ df \in SeqsUpTo(AggEvents, MaxEvents)
    /\ df_music = df
    /\ artist_totals = <<>>
    /\ artist_top = <<>>
    /\ ordered = <<>>
    /\ uris = <<>>
    /\ csv = None
    /\ playlist = None
    /\ exc = ""

NextAgg == Step3

SpecAgg == InitAgg /\ [][NextAgg]_vars

\* ---------------------------------------- inputs of the deduplication
DedupEvents ==
    {[ts |-> Some(2024), ms |-> Some(1), artist |-> Some(a), track |-> Some(t), uri |-> u] :
        a \in AggArtists, t \in AggTracks,
        u \in {Some(<<"u", "1">>), Some(<<"u", "2">>), None}}

DedupArgs == {a \in AggArgs : /\ a.top_artists >= 1 /\ a.tracks_per_artist >= 1
                              /\ isna(a.min_track_total_ms)}

InitDedup ==
    /\ pc = "step3"
    /\ entry = "create_playlist"
    /\ args \in DedupArgs
    /\ patterns = <<>>
    /\ df_raw = <<>>
    /\ df \in SeqsUpTo(DedupEvents, MaxDedupEvents)
    /\ df_music = df
    /\ artist_totals = <<>>
    /\ artist_top = <<>>
    /\ ordered = <<>>
    /\ uris = <<>>
    /\ csv = None
    /\ playlist = None
    /\ exc = ""

SpecDedup == InitDedup /\ [][NextAgg]_vars

\* ---------------------------------------- inputs of the pattern filter
PatArtistNames == {<<"A", "b">>, <<"a", ".">>, <<"B">>, <<"b", "|">>}
PatStrings == {<<"a">>, <<"B">>, <<".">>, <<"|">>, <<"a", "b">>}
PatEvents ==
    {[ts |-> Some(2024), ms |-> Some(1), artist |-> Some(a), track |-> Some(<<"T", "1">>),
      uri |-> Some(<<"u", "1">>)] : a \in PatArtistNames}
Modes == {"exclude", "include", "shuffle"}

InitPat ==
    /\ pc = "step2_5"
    /\ entry = "create_playlist"
    /\ \E m \in Modes :
          args = [year_start |-> None, year_end |-> None, top_artists |-> 1,
                  tracks_per_artist |-> 1, min_play_ms |-> 0,
                  min_track_total_ms |-> None, artists_filter_file |-> None,
                  artists_filter_mode |-> m]
    /\ patterns \in SeqsUpTo(PatStrings, MaxPatterns)
    /\ df_raw = <<>>
    /\ df_music \in SeqsUpTo(PatEvents, MaxRows)
    /\ df = df_music
    /\ artist_totals = <<>>
    /\ artist_top = <<>>
    /\ ordered = <<>>
    /\ uris = <<>>
    /\ csv = None
    /\ playlist = None
    /\ exc = ""

NextPat == Step2_5

SpecPat == InitPat /\ [][NextPat]_vars

\* ---------------------------------------- inputs of a whole run
FilterFiles ==
    {None,
     Some([isfile |-> FALSE, lines |-> <<>>]),
     Some([isfile |-> TRUE, lines |-> << <<"a", "\n">> >>]),
     Some([isfile |-> TRUE, lines |-> << <<"#", "a", "\n">>, <<"\n">> >>])}

YearRanges == {<<None, None>>, <<Some(2024), Some(2023)>>, <<Some(2024), Some(2024)>>}

RunArgs ==
    {[year_start |-> y[1], year_end |-> y[2], top_artists |-> n,
      tracks_per_artist |-> 1, min_play_ms |-> p, min_track_total_ms |-> f,
      artists_filter_file |-> file, artists_filter_mode |-> m] :
        y \in YearRanges, n \in {0, 1}, p \in {-1, 1, 2}, f \in {None, Some(-1)},
        file \in FilterFiles, m \in Modes}

\* A run starts in cli.main or in a direct call of create_playlist.
InitRun ==
    /\ entry \in {"main", "create_playlist"}
    /\ pc = IF entry = "main" THEN "main" ELSE "step0"
    /\ args \in RunArgs
    /\ patterns = <<>>
    /\ df_raw = <<>>
    /\ df_music = <<>>
    /\ df = <<>>
    /\ artist_totals = <<>>
    /\ artist_top = <<>>
    /\ ordered = <<>>
    /\ uris = <<>>
    /\ csv = None
    /\ playlist = None
    /\ exc = ""

Next ==
    \/ Main
    \/ Step0
    \/ Step1
    \/ Step2
    \/ Step2_5
    \/ Step3
    \/ Step4
    \/ Step5
    \/ Step6
    \/ AddItems
    \/ Return

Spec == InitRun /\ [][Next]_vars


\* =================================================================
\* Properties of _aggregate_and_order.  The definitions of this part
\* recompute totals and orders from the input rows, independently of the
\* operators above.

\* Step 3 has run: ordered, uris, artist_top hold the values it returned.
Aggregated ==
    \/ pc \in {"step4", "step5", "step6", "adding", "done"}
    \/ pc = "error" /\ exc \in {ErrNoUris, ErrAuth, ErrCreate, ErrAdd}

Min2(a, b) == IF a < b THEN a ELSE b
Prefix(s, n) == [k \in 1..Min2(n, Len(s)) |-> s[k]]

RECURSIVE ArtistMs(_, _)
ArtistMs(d, a) ==
    IF d = <<>> THEN 0
    ELSE (IF Head(d).artist = a THEN val(Head(d).ms) ELSE 0) + ArtistMs(Tail(d), a)

RECURSIVE TrackMs(_, _)
TrackMs(d, g) ==
    IF d = <<>> THEN 0
    ELSE (IF /\ Head(d).artist = g.artist
             /\ Head(d).track = g.track
             /\ Head(d).uri = g.uri
          THEN val(Head(d).ms) ELSE 0) + TrackMs(Tail(d), g)

ArtistsOf(d) == {d[i].artist : i \in DOMAIN d}
GroupsOf(d) == {[artist |-> d[i].artist, track |-> d[i].track, uri |-> d[i].uri] :
                    i \in DOMAIN d}
FirstSeenArtist(d, a) == CHOOSE i \in DOMAIN d :
    d[i].artist = a /\ \A j \in 1..(i - 1) : d[j].artist # a
FirstSeenGroup(d, g) == CHOOSE i \in DOMAIN d :
    /\ [artist |-> d[i].artist, track |-> d[i].track, uri |-> d[i].uri] = g
    /\ \A j \in 1..(i - 1) :
          [artist |-> d[j].artist, track |-> d[j].track, uri |-> d[j].uri] # g

AboveFloor(d, g) ==
    isna(args.min_track_total_ms) \/ TrackMs(d, g) > val(args.min_track_total_ms)

SelectedArtists == {artist_top[k].artist : k \in DOMAIN artist_top}

\* The artists ranked by total descending, equal totals in the order of first
\* appearance in the input.
ArtistsFirstAppearanceRanked(d) ==
    LET byFirst == SortedSeq(ArtistsOf(d),
                      {xy \in ArtistsOf(d) \X ArtistsOf(d) :
                          FirstSeenArtist(d, xy[1]) < FirstSeenArtist(d, xy[2])})
        rows == [k \in 1..Len(byFirst) |->
                    [artist |-> byFirst[k], artist_ms |-> ArtistMs(d, byFirst[k])]]
    IN StableSort(rows, {rt \in Range(rows) \X Range(rows) :
                            rt[1].artist_ms > rt[2].artist_ms})

\* C1 (as claimed): the selected artists are the first top_artists artists by
\* summed listened time descending, artists with equal totals ordered by their
\* first appearance in the filtered input.
C1_TiesByFirstAppearance ==
    Aggregated => artist_top = Prefix(ArtistsFirstAppearanceRanked(df), args.top_artists)

\* C1 (amended): the selected artists are min(top_artists, number of artists)
\* distinct artists, each carrying its summed listened time, listed by total
\* descending, and no unselected artist has a larger total than a selected
\* one; the order among artists with equal totals is not fixed by the input
\* order.
C1_TopArtistsByTotal ==
    Aggregated =>
        /\ Len(artist_top) = Min2(args.top_artists, Cardinality(ArtistsOf(df)))
        /\ \A i \in DOMAIN artist_top :
              /\ artist_top[i].artist \in ArtistsOf(df)
              /\ artist_top[i].artist_ms = ArtistMs(df, artist_top[i].artist)
        /\ \A i \in DOMAIN artist_top : \A j \in DOMAIN artist_top :
              i < j => /\ artist_top[i].artist # artist_top[j].artist
                       /\ artist_top[i].artist_ms >= artist_top[j].artist_ms
        /\ \A b \in ArtistsOf(df) \ SelectedArtists : \A i \in DOMAIN artist_top :
              ArtistMs(df, b) <= artist_top[i].artist_ms

\* Two artists tie, one is selected, and it is not the one seen first.
C1_Witness ==
    /\ Aggregated
    /\ args.top_artists = 1
    /\ Cardinality(ArtistsOf(df)) = 2
    /\ \A a \in ArtistsOf(df) : \A b \in ArtistsOf(df) : ArtistMs(df, a) = ArtistMs(df, b)
    /\ Len(artist_top) = 1
    /\ FirstSeenArtist(df, artist_top[1].artist) # 1

\* C2: the final table is artist rank major, track rank minor: the rows of one
\* artist are contiguous, the rows of an artist with a larger total precede
\* those of an artist with a smaller total, and inside one artist the rows
\* carry the ranks 1, 2, ... in this order.
C2_ArtistMajorTrackMinor ==
    Aggregated =>
        /\ \A i \in DOMAIN ordered : \A j \in DOMAIN ordered : \A k \in DOMAIN ordered :
              (i < j /\ j < k /\ ordered[i].artist = ordered[k].artist)
                  => ordered[j].artist = ordered[i].artist
        /\ \A i \in DOMAIN ordered : \A j \in DOMAIN ordered :
              i < j => ordered[i].artist_ms >= ordered[j].artist_ms
        /\ \A i \in DOMAIN ordered :
              ordered[i].rank_in_artist =
                  1 + Cardinality({j \in 1..(i - 1) : ordered[j].artist = ordered[i].artist})

\* The track rows of artist a that the table must hold when the track groups
\* are first arranged by Arrange and then ranked by total descending, equal
\* totals keeping the arrangement.
ExpectedArtistRows(d, a, arrange) ==
    LET gs == SortedSeq({g \in GroupsOf(d) : g.artist = a /\ AboveFloor(d, g)}, arrange)
        rows == [k \in 1..Len(gs) |->
                    [track |-> gs[k].track, uri |-> gs[k].uri, track_ms |-> TrackMs(d, gs[k])]]
        ranked == StableSort(rows, {rt \in Range(rows) \X Range(rows) :
                                       rt[1].track_ms > rt[2].track_ms})
    IN Prefix([k \in 1..Len(ranked) |->
                 [track |-> ranked[k].track, uri |-> ranked[k].uri,
                  track_ms |-> ranked[k].track_ms, rank_in_artist |-> k]],
              args.tracks_per_artist)

\* The rows of artist a in the table, in table order.
TableRowsOf(a) ==
    LET rs == SelectSeq(ordered, LAMBDA r : r.artist = a)
    IN [k \in 1..Len(rs) |->
          [track |-> rs[k].track, uri |-> rs[k].uri, track_ms |-> rs[k].track_ms,
           rank_in_artist |-> rs[k].rank_in_artist]]

\* C3 (as claimed): inside each selected artist the tracks are ranked 1, 2, ...
\* by summed listened time descending, tracks with equal totals in the order of
\* their first appearance in the input, and exactly the ranks <= tracks_per_artist
\* are kept.
C3_TrackTiesByFirstAppearance ==
    Aggregated =>
        /\ \A i \in DOMAIN ordered : ordered[i].artist \in SelectedArtists
        /\ \A a \in SelectedArtists :
              TableRowsOf(a) = ExpectedArtistRows(df, a,
                  {gh \in GroupsOf(df) \X GroupsOf(df) :
                      FirstSeenGroup(df, gh[1]) < FirstSeenGroup(df, gh[2])})

\* C3 (amended): as claimed, except that tracks with equal totals are ranked in
\* ascending order of their (track, uri) key (str order, a null uri last), not
\* in the order of first appearance.
C3_TrackTiesByKey ==
    Aggregated =>
        /\ \A i \in DOMAIN ordered : ordered[i].artist \in SelectedArtists
        /\ \A a \in SelectedArtists :
              TableRowsOf(a) = ExpectedArtistRows(df, a,
                  {gh \in GroupsOf(df) \X GroupsOf(df) : TrackKeyLess(gh[1], gh[2])})

\* Two tracks of a selected artist tie, the later key was seen first, and only
\* one of them is kept.
C3_Witness ==
    /\ Aggregated
    /\ args.tracks_per_artist = 1
    /\ \E i \in DOMAIN ordered : \E g \in GroupsOf(df) :
          /\ g.artist = ordered[i].artist
          /\ g.track # ordered[i].track
          /\ AboveFloor(df, g)
          /\ TrackMs(df, g) = ordered[i].track_ms
          /\ FirstSeenGroup(df, g) <
                FirstSeenGroup(df, [artist |-> ordered[i].artist,
                                    track |-> ordered[i].track, uri |-> ordered[i].uri])

\* A group g is among the tracks_per_artist best of its artist.
InTopM(d, g, m) ==
    Cardinality({h \in GroupsOf(d) :
        /\ h.artist = g.artist
        /\ \/ TrackMs(d, h) > TrackMs(d, g)
           \/ TrackMs(d, h) = TrackMs(d, g) /\ TrackKeyLess(h, g)}) < m

TableGroups(tbl) ==
    {[artist |-> tbl[i].artist, track |-> tbl[i].track, uri |-> tbl[i].uri] :
        i \in DOMAIN tbl}

\* C5: with min_track_total_ms set (0 included) every row of the table has a
\* track total strictly above it, so a total equal to it is excluded; with it
\* unset the table holds exactly the tracks_per_artist best tracks of every
\* selected artist, taken among all aggregated tracks.
C5_FloorCorrectness ==
    Aggregated =>
        /\ \A i \in DOMAIN ordered :
              ordered[i].track_ms = TrackMs(df, [artist |-> ordered[i].artist,
                  track |-> ordered[i].track, uri |-> ordered[i].uri])
        /\ notna(args.min_track_total_ms) =>
              /\ \A i \in DOMAIN ordered :
                    ordered[i].track_ms > val(args.min_track_total_ms)
              /\ \A g \in GroupsOf(df) :
                    TrackMs(df, g) = val(args.min_track_total_ms)
                        => g \notin TableGroups(ordered)
        /\ isna(args.min_track_total_ms) =>
              TableGroups(ordered) =
                  {g \in GroupsOf(df) : /\ g.artist \in SelectedArtists
                                        /\ InTopM(df, g, args.tracks_per_artist)}

\* The floor is set, a track of a selected artist totals exactly the floor and
\* another track of that artist is in the table.
C5_Witness ==
    /\ Aggregated
    /\ notna(args.min_track_total_ms)
    /\ \E g \in GroupsOf(df) : \E i \in DOMAIN ordered :
          /\ g.artist = ordered[i].artist
          /\ TrackMs(df, g) = val(args.min_track_total_ms)
          /\ InTopM(df, g, args.tracks_per_artist)

\* C10: for the same events and thresholds, a smaller top_artists selects no
\* artist that the run's table lacks and a larger one loses none; a smaller
\* tracks_per_artist keeps no row that the run's table lacks and a larger one
\* loses none.
\* The runs compared share artist_totals: the sort is a function of
\* its input, whichever order it gives to equal totals.
C10_Monotonicity ==
    Aggregated =>
        LET tab(n, m) == ordered_table(df, head(artist_totals, n), m,
                                       args.min_track_total_ms)
            arts(tbl) == {tbl[i].artist : i \in DOMAIN tbl}
            N == args.top_artists
            M == args.tracks_per_artist
        IN /\ \A n \in 0..3 :
                /\ n <= N => arts(tab(n, M)) \subseteq arts(ordered)
                /\ n >= N => arts(ordered) \subseteq arts(tab(n, M))
           /\ \A m \in 0..3 :
                /\ m <= M => TableGroups(tab(N, m)) \subseteq TableGroups(ordered)
                /\ m >= M => TableGroups(ordered) \subseteq TableGroups(tab(N, m))

\* The table has rows of two artists and two ranks, so that smaller parameters
\* give a strictly smaller table.
C10_Witness ==
    /\ Aggregated
    /\ args.top_artists = 2
    /\ args.tracks_per_artist = 2
    /\ Cardinality({ordered[i].artist : i \in DOMAIN ordered}) = 2
    /\ \E i \in DOMAIN ordered : ordered[i].rank_in_artist = 2

\* =================================================================
\* Properties of the deduplication loop (specification SpecDedup).

FirstRowWith(u) == CHOOSE i \in DOMAIN ordered :
    ordered[i].uri = u /\ \A j \in 1..(i - 1) : ordered[j].uri # u

\* C4: the identifier sequence holds no null identifier and no identifier
\* twice, holds every non-null identifier of the table, and lists them in the
\* order of their first rows in the table.
C4_DedupCorrectness ==
    Aggregated =>
        /\ \A k \in DOMAIN uris : notna(uris[k])
        /\ \A k \in DOMAIN uris : \A l \in DOMAIN uris : k # l => uris[k] # uris[l]
        /\ {uris[k] : k \in DOMAIN uris} =
              {ordered[i].uri : i \in DOMAIN ordered} \ {None}
        /\ \A k \in DOMAIN uris : \A l \in DOMAIN uris :
              k < l => FirstRowWith(uris[k]) < FirstRowWith(uris[l])

\* An identifier is on two rows that differ in artist or track, with a row of
\* another identifier between them.
C4_Witness ==
    /\ Aggregated
    /\ \E i \in DOMAIN ordered : \E j \in DOMAIN ordered : \E k \in DOMAIN ordered :
          /\ i < j /\ j < k
          /\ notna(ordered[i].uri)
          /\ ordered[i].uri = ordered[k].uri
          /\ notna(ordered[j].uri)
          /\ ordered[j].uri # ordered[i].uri

\* =================================================================
\* Properties of the pattern filter (specification SpecPat).

SameLetter(c, d) == c = d \/ {c, d} \in {{"a", "A"}, {"b", "B"}}

\* text contains p as a case-insensitive literal substring.
ContainsLiteral(text, p) ==
    \E start \in 0..(Len(text) - Len(p)) :
        \A k \in 1..Len(p) : SameLetter(text[start + k], p[k])

MatchesAnyPattern(e) ==
    \E k \in DOMAIN patterns : ContainsLiteral(val(e.artist), patterns[k])

\* The rows of d at the indices in I, in ascending index order.
RowsAt(d, I) ==
    LET idx == SortedSeq(I, {xy \in I \X I : xy[1] < xy[2]})
    IN [k \in 1..Len(idx) |-> d[idx[k]]]

\* C9: with patterns and mode exclude the surviving events are exactly those
\* whose artist contains no pattern as a case-insensitive literal substring,
\* with mode include exactly those whose artist contains at least one; with
\* no pattern the collection is unchanged; survivors keep their input order.
C9_PatternFilter ==
    pc = "step3" =>
        df = RowsAt(df_music,
                {i \in DOMAIN df_music :
                    \/ patterns = <<>>
                    \/ /\ patterns # <<>>
                       /\ args.artists_filter_mode = "exclude"
                       /\ ~MatchesAnyPattern(df_music[i])
                    \/ /\ patterns # <<>>
                       /\ args.artists_filter_mode = "include"
                       /\ MatchesAnyPattern(df_music[i])})

\* Two patterns, one of them a character special to re, one event dropped and
\* one kept.
C9_Witness ==
    /\ pc = "step3"
    /\ Len(patterns) = 2
    /\ \E k \in DOMAIN patterns : patterns[k] \in {<<".">>, <<"|">>}
    /\ Len(df) = 1
    /\ Len(df_music) = 2

\* =================================================================
\* Properties of a whole run (specification Spec).

InvalidConfig ==
    \/ args.artists_filter_mode \notin {"exclude", "include"}
    \/ /\ notna(args.year_start) /\ notna(args.year_end)
       /\ val(args.year_start) > val(args.year_end)
    \/ args.min_play_ms < 0
    \/ notna(args.min_track_total_ms) /\ val(args.min_track_total_ms) < 0

\* _load_history has returned the event records.
Loaded ==
    \/ pc \in {"step2", "step2_5", "step3", "step4", "step5", "step6", "adding", "done"}
    \/ pc = "error" /\ exc \in {ErrNoRows, ErrBadMode, ErrNoUris, ErrAuth, ErrCreate, ErrAdd}

\* C6: a run with an invalid mode, an inverted year range or a negative
\* threshold, started in main or in create_playlist, ends in an error before
\* any event record is loaded or filtered, whatever the pattern list.
C6_ConfigErrorBeforeData ==
    InvalidConfig => ~Loaded /\ pc # "done"

\* C7: a run that ended in a failure has produced no output: no table file
\* is written and no playlist is created.
C7_NoPartialOutput ==
    pc = "error" => csv = None /\ playlist = None

Filtered ==
    \/ pc \in {"step2_5", "step3", "step4", "step5", "step6", "adding", "done"}
    \/ pc = "error" /\ exc \in {ErrNoRows, ErrBadMode, ErrNoUris, ErrAuth, ErrCreate, ErrAdd}

PatternsApplied ==
    \/ pc \in {"step3", "step4", "step5", "step6", "adding", "done"}
    \/ pc = "error" /\ exc \in {ErrNoUris, ErrAuth, ErrCreate, ErrAdd}

EmptyResult ==
    \/ Filtered /\ df_music = <<>>
    \/ PatternsApplied /\ df = <<>>
    \/ Aggregated /\ uris = <<>>

\* C8: when no event survives the filters or the identifier sequence is
\* empty, the run is on its way to, or has ended in, one of the two raised
\* empty-result errors, and no table is written, no authentication and no
\* playlist creation is reached.
C8_EmptyResultRaised ==
    EmptyResult =>
        /\ \/ pc = "step3"
           \/ pc = "error" /\ exc \in {ErrNoRows, ErrNoUris}
        /\ csv = None
        /\ playlist = None

\* The table has rows, every one of them with a null identifier, and the run
\* has raised.
C8_Witness ==
    /\ pc = "error"
    /\ exc = ErrNoUris
    /\ ordered # <<>>
    /\ \A i \in DOMAIN ordered : isna(ordered[i].uri)

====
